---- MODULE Spec2Model ----
(***************************************************************************)
(* The link-health-checking subsystem of links-aggregator:                 *)
(*   - JobScheduler and the manual trigger API   (specification Spec)      *)
(*   - LinkChecker batches and sweeps on a store (specification SpecChecker)*)
(*   - the probe primitive checkLink             (specification SpecProbe) *)
(***************************************************************************)
EXTENDS Integers, Sequences, FiniteSets, TLC

VARIABLES
    \* ---- JobScheduler (scheduler.js) and POST /api/check-links
    jobs,       \* this.jobs: the Map's job objects, in insertion order
    objs,       \* the job objects that are still referenced, by identity
    timers,     \* the armed setInterval timers: id -> the job object of the callback
    running,    \* this.running of the scheduler
    inflight,   \* per job object: task invocations started and not settled
    outcome,    \* per job object: how its last settled invocation ended
    uncaught,   \* rejections that escaped runJob
    manual,     \* POST {action: 'all'} requests awaiting checkAllLinks
    now,        \* the clock
    last,       \* what produced this state: a timer callback, a returned result, a call
    \* ---- LinkChecker on the store (link-checker.js)
    store,      \* the links table: id -> record
    sweeps,     \* the checkAll calls in flight
    \* ---- checkLink
    probe       \* one checkLink call: its input, its network outcome, its result

schedVars == <<jobs, objs, timers, running, inflight, outcome, uncaught, manual>>
checkerVars == <<store, sweeps, now>>
vars == <<jobs, objs, timers, running, inflight, outcome, uncaught, manual,
          now, last, store, sweeps, probe>>

\* ------------------------------------------------------------------ bounds
MaxObjs == 2        \* job objects alive at once (registered or still running)
MaxManual == 1      \* manual sweeps in flight at once
MaxLinks == 2       \* rows of public.links
BatchSize == 2      \* the largest options.batchSize a sweep is configured with
BatchLinks == 3     \* rows of public.links when one batch is followed alone
MaxBatches == MaxLinks + 2  \* batches of one sweep
MaxTime == 1        \* clock ticks the model runs for

\* A nullable value: <<>> is null, <<v>> is v.
None == <<>>
Some(v) == <<v>>

\* ------------------------------------------------------- JobScheduler
JobNames == {"link-checker", "cleanup"}
\* The task each name is registered with: createLinkCheckerScheduler's sweep for
\* 'link-checker', some other task for any other name.
TaskOf(name) == IF name = "link-checker" THEN "checkAllLinks" ELSE "task"
\* 24 * 60 * 60 * 1000 ms, in clock units of 12 hours
Day == 2

ObjIds == 1..MaxObjs
TimerIds == 1..MaxObjs

Min(S) == CHOOSE x \in S : \A y \in S : x <= y

\* The scheduler state the methods below read and change.
Sched == [jobs |-> jobs, objs |-> objs, timers |-> timers, running |-> running,
          inflight |-> inflight, outcome |-> outcome, uncaught |-> uncaught]

\* Map.has / Map.get by name
HasJob(h, name) == \E i \in 1..Len(h.jobs) : h.objs[h.jobs[i]].name = name
GetJob(h, name) == h.jobs[CHOOSE i \in 1..Len(h.jobs) : h.objs[h.jobs[i]].name = name]

Without(f, k) == [x \in (DOMAIN f) \ {k} |-> f[x]]

clearInterval(h, id) == [h EXCEPT !.timers = Without(@, id)]

\* Job objects nothing refers to any more are collected.
Referenced(h) ==
    {h.jobs[i] : i \in 1..Len(h.jobs)}
        \cup {o \in DOMAIN h.objs : h.inflight[o] > 0}
        \cup {h.timers[t] : t \in DOMAIN h.timers}
Collect(h) ==
    LET keep == Referenced(h) \cap DOMAIN h.objs
    IN  [h EXCEPT !.objs = [o \in keep |-> h.objs[o]],
                  !.inflight = [o \in keep |-> h.inflight[o]],
                  !.outcome = [o \in keep |-> h.outcome[o]]]

removeJobKeepTimer(h, name) ==
    IF HasJob(h, name)
    THEN [h EXCEPT !.jobs = SelectSeq(@, LAMBDA j : j # GetJob(h, name))]
    ELSE h
removeJob(h, name) ==
    IF HasJob(h, name)
    THEN LET o == GetJob(h, name)
             h1 == IF h.objs[o].intervalId # None
                   THEN clearInterval(h, h.objs[o].intervalId[1])
                   ELSE h
         IN  [h1 EXCEPT !.jobs = SelectSeq(@, LAMBDA j : j # o)]
    ELSE h

addJobNoCancel(h, name, task, intervalMs) ==
    LET h1 == Collect(IF HasJob(h, name)
                      THEN [h EXCEPT !.jobs = SelectSeq(@, LAMBDA j : j # GetJob(h, name))]
                      ELSE h)
        o == Min(ObjIds \ DOMAIN h1.objs)
        job == [name |-> name, task |-> task, intervalMs |-> intervalMs,
                intervalId |-> None, lastRun |-> None, nextRun |-> None,
                running |-> FALSE]
    IN  [h1 EXCEPT !.jobs = Append(@, o),
                   !.objs = (o :> job) @@ @,
                   !.inflight = (o :> 0) @@ @,
                   !.outcome = (o :> "none") @@ @]
addJob(h, name, task, intervalMs) ==
    LET h1 == Collect(IF HasJob(h, name) THEN removeJob(h, name) ELSE h)
        o == Min(ObjIds \ DOMAIN h1.objs)
        job == [name |-> name, task |-> task, intervalMs |-> intervalMs,
                intervalId |-> None, lastRun |-> None, nextRun |-> None,
                running |-> FALSE]
    IN  [h1 EXCEPT !.jobs = Append(@, o),
                   !.objs = (o :> job) @@ @,
                   !.inflight = (o :> 0) @@ @,
                   !.outcome = (o :> "none") @@ @]

\* runJob up to its await: the skip, or the flag, the timestamps and the call of
\* job.task().
runJob(h, o) ==
    IF h.objs[o].running
    THEN h
    ELSE [h EXCEPT !.objs[o].running = TRUE,
                   !.objs[o].lastRun = Some(now),
                   !.objs[o].nextRun = Some(now + h.objs[o].intervalMs),
                   !.inflight[o] = @ + 1]

\* runJob after its await: the task resolved (result "ok") or threw or rejected
\* (result "fail"). catch logs the failure; finally clears the flag.
settleJobNoFinally(h, o, result) ==
    [h EXCEPT !.objs[o].running = (result = "fail"),
              !.inflight[o] = @ - 1,
              !.outcome[o] = result]
settleJobRerun(h, o, result) ==
    runJob([h EXCEPT !.objs[o].running = FALSE,
                     !.inflight[o] = @ - 1,
                     !.outcome[o] = result], o)
settleJob(h, o, result) ==
    [h EXCEPT !.objs[o].running = FALSE,
              !.inflight[o] = @ - 1,
              !.outcome[o] = result]

startJob(h, o) ==
    LET h1 == IF h.objs[o].intervalId # None
              THEN clearInterval(h, h.objs[o].intervalId[1])
              ELSE h
        h2 == runJob(h1, o)
        t == Min(TimerIds \ DOMAIN h2.timers)
    IN  [h2 EXCEPT !.timers = (t :> o) @@ @,
                   !.objs[o].intervalId = Some(t),
                   !.objs[o].nextRun = Some(now + h.objs[o].intervalMs)]

RECURSIVE startAll(_, _)
startAll(h, js) ==
    IF js = <<>> THEN h ELSE startAll(startJob(h, Head(js)), Tail(js))

startNoGuard(h) == startAll([h EXCEPT !.running = TRUE], h.jobs)
start(h) ==
    IF h.running THEN h ELSE startAll([h EXCEPT !.running = TRUE], h.jobs)

RECURSIVE stopAll(_, _)
stopAll(h, js) ==
    IF js = <<>> THEN h
    ELSE LET o == Head(js)
             h1 == IF h.objs[o].intervalId # None
                   THEN [clearInterval(h, h.objs[o].intervalId[1])
                            EXCEPT !.objs[o].intervalId = None]
                   ELSE h
         IN  stopAll(h1, Tail(js))

stopKeepTimers(h) ==
    IF ~h.running THEN h ELSE [h EXCEPT !.running = FALSE]
stop(h) ==
    IF ~h.running THEN h ELSE stopAll([h EXCEPT !.running = FALSE], h.jobs)

\* Task invocations in flight under a job name, over every job object that
\* carries the name.
RECURSIVE SumOver(_, _)
SumOver(f, S) ==
    IF S = {} THEN 0
    ELSE LET x == CHOOSE y \in S : TRUE IN f[x] + SumOver(f, S \ {x})
InFlightByName(name) ==
    SumOver(inflight, {o \in DOMAIN objs : objs[o].name = name})
\* checkAll sweeps in flight: the ones the 'link-checker' task started and the
\* ones POST {action: 'all'} started.
ScheduledSweeps ==
    SumOver(inflight, {o \in DOMAIN objs : objs[o].task = "checkAllLinks"})
SweepsInFlight == ScheduledSweeps + manual

Install(h) ==
    /\ jobs' = h.jobs
    /\ objs' = h.objs
    /\ timers' = h.timers
    /\ running' = h.running
    /\ inflight' = h.inflight
    /\ outcome' = h.outcome
    /\ uncaught' = h.uncaught

\* ---- the scheduler's operations
AddJob(name, task) ==
    /\ Cardinality(DOMAIN Collect(removeJob(Sched, name)).objs) < MaxObjs
    /\ Install(addJob(Sched, name, task, Day))
    /\ last' = <<"call", 0>>
    /\ UNCHANGED manual

RemoveJob(name) ==
    /\ Install(Collect(removeJob(Sched, name)))
    /\ last' = <<"call", 0>>
    /\ UNCHANGED manual

Start ==
    /\ Install(start(Sched))
    /\ last' = <<"call", 0>>
    /\ UNCHANGED manual

Stop ==
    /\ Install(stop(Sched))
    /\ last' = <<"call", 0>>
    /\ UNCHANGED manual

\* The setInterval callback of timer t.
TimerTick(t) ==
    /\ t \in DOMAIN timers
    /\ Install(runJob(Sched, timers[t]))
    /\ last' = <<"tick", timers[t], IF objs[timers[t]].running THEN "skip" ELSE "run">>
    /\ UNCHANGED manual

\* The task of an invocation of job object o settles.
TaskSettles(o, result) ==
    /\ o \in DOMAIN objs
    /\ inflight[o] > 0
    /\ Install(Collect(settleJob(Sched, o, result)))
    /\ last' = <<"call", 0>>
    /\ UNCHANGED manual

\* POST /api/check-links {action: 'all'}: the handler calls checkAllLinks and
\* awaits it.
PostAll ==
    /\ manual < MaxManual
    /\ manual' = manual + 1
    /\ last' = <<"call", 0>>
    /\ UNCHANGED <<jobs, objs, timers, running, inflight, outcome, uncaught>>

PostAllResponds ==
    /\ manual > 0
    /\ manual' = manual - 1
    /\ last' = <<"call", 0>>
    /\ UNCHANGED <<jobs, objs, timers, running, inflight, outcome, uncaught>>

InitSched ==
    /\ jobs = <<>>
    /\ objs = <<>>
    /\ timers = <<>>
    /\ running = FALSE
    /\ inflight = <<>>
    /\ outcome = <<>>
    /\ uncaught = 0
    /\ manual = 0

\* ------------------------------------------------------------- checkLink
\* DEFAULT_OPTIONS
DefaultTimeout == 10000
DefaultTorProxy == "socks5://127.0.0.1:9050"

\* A URL is the sequence of the pieces of its text: scheme, host labels, then
\* "/" and the rest.
Urls ==
    { <<"https://", "example", ".com">>,
      <<"https://", "example", ".com", "/", "notfound">>,
      <<"http://", "example", ".onion">>,
      <<"http://", "hidden", ".onion", "/", "page">>,
      <<"https://", "example", ".com", "/", "mirror", ".onion">>,
      <<"https://", "example", "1", ".com">> }

\* The host of a URL: what stands between the scheme and the first "/".
RECURSIVE UpToSlash(_)
UpToSlash(u) ==
    IF u = <<>> \/ Head(u) = "/" THEN <<>> ELSE <<Head(u)>> \o UpToSlash(Tail(u))
HostOf(url) == UpToSlash(Tail(url))
\* The host is on the .onion suffix.
OnionHost(url) ==
    LET h == HostOf(url) IN h # <<>> /\ h[Len(h)] = ".onion"

\* url.includes('.onion')
isOnionUrl(url) == \E i \in 1..Len(url) : url[i] = ".onion"

\* A JavaScript value of the torProxy option: undefined, a boolean or a string.
Undefined == [t |-> "undefined", v |-> ""]
JsFalse == [t |-> "boolean", v |-> "false"]
JsString(str) == [t |-> "string", v |-> str]

\* The options checkLink is called with: timeout undefined or a number, torProxy
\* undefined, false, the empty string or a proxy URL.
ProbeOptions ==
    [timeout : {None, Some(50)},
     torProxy : {Undefined, JsFalse, JsString(""), JsString("socks5://10.0.0.5:9150")}]

\* options.timeout || DEFAULT_OPTIONS.timeout
TimeoutOf(options) ==
    IF options.timeout = None \/ options.timeout = Some(0)
    THEN DefaultTimeout ELSE options.timeout[1]
\* options.torProxy || DEFAULT_OPTIONS.torProxy
Falsy(j) == j = Undefined \/ j = JsFalse \/ j = JsString("")
ProxyOf(options) ==
    IF Falsy(options.torProxy) THEN DefaultTorProxy ELSE options.torProxy.v

createFetchOptions(url, options) ==
    [method |-> "HEAD",
     timeout |-> TimeoutOf(options),
     userAgent |-> "LinkChecker/1.0",
     agent |-> IF isOnionUrl(url) /\ options.torProxy # JsFalse
               THEN Some(ProxyOf(options))
               ELSE None]

\* What the network call can settle with: a response, or a thrown error. A call
\* through the SOCKS agent can also fail at the proxy.
Responses ==
    { [kind |-> "response", status |-> 200, statusText |-> "OK"],
      [kind |-> "response", status |-> 204, statusText |-> "No Content"],
      [kind |-> "response", status |-> 404, statusText |-> "Not Found"],
      [kind |-> "response", status |-> 500, statusText |-> "Internal Server Error"] }
NetworkErrors == { [kind |-> "throw", message |-> "Network error"] }
ProxyErrors == { [kind |-> "throw", message |-> "connect ECONNREFUSED (proxy)"] }
TimeoutError == [kind |-> "throw", message |-> "Request timeout"]
FetchOutcomes(fetchOptions) ==
    Responses \cup NetworkErrors
        \cup (IF fetchOptions.agent # None THEN ProxyErrors ELSE {})

\* response.ok
Ok(response) == response.status >= 200 /\ response.status <= 299

\* checkLink from the settled race on: the two returns of the try block and the
\* return of the catch block.
checkLinkResultRethrow(url, checkedAt, settled) ==
    IF settled.kind = "throw"
    THEN [kind |-> "rejected", error |-> settled.message]
    ELSE IF Ok(settled)
    THEN [kind |-> "resolved",
          value |-> [url |-> url, status |-> "live",
                     statusCode |-> Some(settled.status),
                     errorMessage |-> None, checkedAt |-> checkedAt]]
    ELSE [kind |-> "resolved",
          value |-> [url |-> url, status |-> "dead",
                     statusCode |-> Some(settled.status),
                     errorMessage |-> Some("HTTP " \o ToString(settled.status)
                                              \o ": " \o settled.statusText),
                     checkedAt |-> checkedAt]]
checkLinkResultNoReason(url, checkedAt, settled) ==
    IF settled.kind = "throw"
    THEN [kind |-> "resolved",
          value |-> [url |-> url, status |-> "dead", statusCode |-> None,
                     errorMessage |-> Some(settled.message),
                     checkedAt |-> checkedAt]]
    ELSE IF Ok(settled)
    THEN [kind |-> "resolved",
          value |-> [url |-> url, status |-> "live",
                     statusCode |-> Some(settled.status),
                     errorMessage |-> None, checkedAt |-> checkedAt]]
    ELSE [kind |-> "resolved",
          value |-> [url |-> url, status |-> "dead",
                     statusCode |-> Some(settled.status),
                     errorMessage |-> Some("HTTP " \o ToString(settled.status)),
                     checkedAt |-> checkedAt]]
checkLinkResult(url, checkedAt, settled) ==
    IF settled.kind = "throw"
    THEN [kind |-> "resolved",
          value |-> [url |-> url, status |-> "dead", statusCode |-> None,
                     errorMessage |-> Some(settled.message),
                     checkedAt |-> checkedAt]]
    ELSE IF Ok(settled)
    THEN [kind |-> "resolved",
          value |-> [url |-> url, status |-> "live",
                     statusCode |-> Some(settled.status),
                     errorMessage |-> None, checkedAt |-> checkedAt]]
    ELSE [kind |-> "resolved",
          value |-> [url |-> url, status |-> "dead",
                     statusCode |-> Some(settled.status),
                     errorMessage |-> Some("HTTP " \o ToString(settled.status)
                                              \o ": " \o settled.statusText),
                     checkedAt |-> checkedAt]]

\* One checkLink call. pc: "idle", "racing" (fetch and timer pending), "settled".
\* egress: how the request left, <<"direct">> or <<"socks", proxy>>.
ProbeIdle ==
    [pc |-> "idle", url |-> <<>>, options |-> None, checkedAt |-> None,
     egress |-> None, fetchPending |-> FALSE, timerPending |-> FALSE,
     won |-> None, result |-> None]

\* checkLink(url, options) to its await: the options, the timer, the request.
CallCheckLink(url, options) ==
    /\ probe.pc = "idle"
    /\ LET fetchOptions == createFetchOptions(url, options)
       IN  probe' = [probe EXCEPT
                        !.pc = "racing", !.url = url, !.options = Some(options),
                        !.checkedAt = Some(now),
                        !.egress = IF fetchOptions.agent # None
                                   THEN Some(<<"socks", fetchOptions.agent[1]>>)
                                   ELSE Some(<<"direct">>),
                        !.fetchPending = TRUE, !.timerPending = TRUE]
    /\ last' = <<"call", 0>>

\* The network call settles first: the race is decided by it.
FetchSettles(settled) ==
    /\ probe.pc = "racing"
    /\ settled \in FetchOutcomes(createFetchOptions(probe.url, probe.options[1]))
    /\ probe' = [probe EXCEPT
                    !.pc = "settled", !.fetchPending = FALSE,
                    !.won = Some(settled),
                    !.result = Some(checkLinkResult(probe.url, probe.checkedAt[1], settled))]
    /\ last' = <<"call", 0>>

\* The timer fires first: the race rejects with 'Request timeout'.
TimeoutFires ==
    /\ probe.pc = "racing"
    /\ probe' = [probe EXCEPT
                    !.pc = "settled", !.timerPending = FALSE,
                    !.won = Some(TimeoutError),
                    !.result = Some(checkLinkResult(probe.url, probe.checkedAt[1], TimeoutError))]
    /\ last' = <<"call", 0>>

\* The loser of the race settles later: the timer is never cleared and the
\* request is never aborted; Promise.race has settled and takes neither.
raceLoserApplied(p, settled) ==
    [p EXCEPT !.fetchPending = FALSE,
              !.result = Some(checkLinkResult(p.url, p.checkedAt[1], settled))]
raceLoser(p, settled) == [p EXCEPT !.fetchPending = FALSE]
LateFetchSettles(settled) ==
    /\ probe.pc = "settled"
    /\ probe.fetchPending
    /\ settled \in FetchOutcomes(createFetchOptions(probe.url, probe.options[1]))
    /\ probe' = raceLoser(probe, settled)
    /\ last' = <<"call", 0>>

LateTimeoutFires ==
    /\ probe.pc = "settled"
    /\ probe.timerPending
    /\ probe' = [probe EXCEPT !.timerPending = FALSE]
    /\ last' = <<"call", 0>>

InitProbe == probe = ProbeIdle

\* POST {action: 'single', url}: the handler awaits checkLink(url) and answers
\* with the result; it makes no call on the store, which stays as it is.
postSinglePersist(st, result) ==
    [l \in DOMAIN st |->
        IF st[l].url = result.url
        THEN [st[l] EXCEPT !.status = result.status,
                           !.last_checked_at = Some(result.checkedAt)]
        ELSE st[l]]
postSingle(st, result) == st

NextProbe ==
    \/ \E url \in Urls, options \in ProbeOptions :
            CallCheckLink(url, options) /\ UNCHANGED <<schedVars, checkerVars>>
    \/ \E settled \in Responses \cup NetworkErrors \cup ProxyErrors :
            /\ FetchSettles(settled)
            /\ store' = postSingle(store, probe'.result[1].value)
            /\ UNCHANGED <<schedVars, sweeps, now>>
    \/ (/\ TimeoutFires
        /\ store' = postSingle(store, probe'.result[1].value)
        /\ UNCHANGED <<schedVars, sweeps, now>>)
    \/ \E settled \in Responses \cup NetworkErrors \cup ProxyErrors :
            LateFetchSettles(settled) /\ UNCHANGED <<schedVars, checkerVars>>
    \/ LateTimeoutFires /\ UNCHANGED <<schedVars, checkerVars>>

\* ------------------------------------------------------------ LinkChecker
\* DEFAULT_OPTIONS.maxConsecutiveFailures
MaxConsecutiveFailures == 3

LinkIds == 1..MaxLinks
\* The checkAll calls that can be in flight together: the 'link-checker' task's
\* and one started by POST {action: 'all'}.
SweepIds == {"scheduled", "manual"}

\* The clock when the model starts: rows checked at time 0 are due again.
StartTime == Day + 1

LinkUrl(l) == <<"https://", "example", ToString(l), ".com">>

\* Date.toISOString(), and the timestamptz column reading it back.
toISOString(t) == [iso |-> t]
Timestamptz(str) == str.iso

\* Rows of public.links as they can stand before a sweep: never checked, found
\* live at time 0, or found dead at time 0 for the c-th time in a row.
FreshRow(l) ==
    [url |-> LinkUrl(l), status |-> "unknown", status_code |-> None,
     error_message |-> None, last_checked_at |-> None,
     last_verified_at |-> None, consecutive_failures |-> 0]
LiveRow(l) ==
    [url |-> LinkUrl(l), status |-> "live", status_code |-> Some(200),
     error_message |-> None, last_checked_at |-> Some(0),
     last_verified_at |-> Some(0), consecutive_failures |-> 0]
DeadRow(l, c) ==
    [url |-> LinkUrl(l), status |-> "dead", status_code |-> Some(404),
     error_message |-> Some("HTTP 404: Not Found"), last_checked_at |-> Some(0),
     last_verified_at |-> None, consecutive_failures |-> c]
InitRows(l) ==
    {FreshRow(l), LiveRow(l)}
        \cup {DeadRow(l, c) : c \in 1..(MaxConsecutiveFailures - 1)}

\* The view links_needing_check, ordered by last_checked_at ascending with nulls
\* first and cut at the batch size; rows with equal keys come in any order.
NeedingCheck(st, t) ==
    {l \in DOMAIN st :
        \/ st[l].last_checked_at = None
        \/ st[l].last_checked_at[1] < t - Day}
KeyLE(a, b) ==
    \/ a.last_checked_at = None
    \/ (b.last_checked_at # None /\ a.last_checked_at[1] <= b.last_checked_at[1])
getLinksUnfiltered(st, t, batchSize) ==
    LET n == IF Cardinality(DOMAIN st) < batchSize THEN Cardinality(DOMAIN st) ELSE batchSize
    IN  {B \in SUBSET DOMAIN st :
            /\ Cardinality(B) = n
            /\ \A a \in B, b \in (DOMAIN st) \ B : KeyLE(st[a], st[b])}
getLinksNeedingCheck(st, t, batchSize) ==
    LET due == NeedingCheck(st, t)
        n == IF Cardinality(due) < batchSize THEN Cardinality(due) ELSE batchSize
    IN  {B \in SUBSET due :
            /\ Cardinality(B) = n
            /\ \A a \in B, b \in due \ B : KeyLE(st[a], st[b])}

\* What the probes of a sweep settle with.
SweepOutcomes ==
    { [kind |-> "response", status |-> 200, statusText |-> "OK"],
      [kind |-> "response", status |-> 404, statusText |-> "Not Found"],
      TimeoutError }

\* updateLinkStatus between the counter read and the delete or the update: the
\* new counter, and the statement it issues.
newConsecutiveFailuresKeep(currentFailures, checkResult) ==
    IF checkResult.status = "dead" THEN currentFailures + 1 ELSE currentFailures
newConsecutiveFailures(currentFailures, checkResult) ==
    IF checkResult.status = "dead" THEN currentFailures + 1 ELSE 0

updateData(checkResult, newFailures) ==
    LET base == [status |-> checkResult.status,
                 status_code |-> checkResult.statusCode,
                 error_message |-> checkResult.errorMessage,
                 last_checked_at |-> toISOString(checkResult.checkedAt),
                 consecutive_failures |-> newFailures]
    IN  IF checkResult.status = "live"
        THEN [last_verified_at |-> toISOString(checkResult.checkedAt)] @@ base
        ELSE base

ReachedMaxStrict(newFailures, currentFailures) ==
    newFailures > MaxConsecutiveFailures
ReachedMaxBefore(newFailures, currentFailures) ==
    currentFailures >= MaxConsecutiveFailures
ReachedMax(newFailures, currentFailures) ==
    newFailures >= MaxConsecutiveFailures

\* The statement updateLinkStatus issues after reading currentFailures.
updateLinkStatus(currentFailures, checkResult) ==
    LET newFailures == newConsecutiveFailures(currentFailures, checkResult)
    IN  IF ReachedMax(newFailures, currentFailures)
        THEN [op |-> "delete", data |-> None]
        ELSE [op |-> "update", data |-> Some(updateData(checkResult, newFailures))]

\* .from('links').delete().eq('id', id) and .update(data).eq('id', id): a
\* statement that matches no row changes nothing and reports no error.
StoreDelete(st, id) == Without(st, id)
SetColumns(row, data) ==
    [f \in DOMAIN row |->
        IF f \notin DOMAIN data THEN row[f]
        ELSE IF f \in {"last_checked_at", "last_verified_at"}
        THEN Some(Timestamptz(data[f]))
        ELSE data[f]]
StoreUpsert(st, id, data) ==
    IF id \notin DOMAIN st
    THEN (id :> SetColumns([url |-> <<>>, status |-> "unknown", status_code |-> None,
                            error_message |-> None, last_checked_at |-> None,
                            last_verified_at |-> None, consecutive_failures |-> 0],
                           data)) @@ st
    ELSE [st EXCEPT ![id] = SetColumns(@, data)]
StoreUpdate(st, id, data) ==
    IF id \notin DOMAIN st THEN st
    ELSE [st EXCEPT ![id] = SetColumns(@, data)]

\* The counters of checkBatch, and those of checkAll.
ZeroResults == [checked |-> 0, live |-> 0, dead |-> 0, deleted |-> 0, errors |-> 0]
ZeroOverall ==
    [checked |-> 0, live |-> 0, dead |-> 0, deleted |-> 0, errors |-> 0, batches |-> 0]

\* The body of the links.map callback after both awaits, and its catch.
countOutcomeBoth(results, deleted, checkResult) ==
    LET r == [results EXCEPT !.checked = @ + 1]
    IN  IF checkResult.status = "live" THEN [r EXCEPT !.live = @ + 1]
        ELSE IF deleted THEN [r EXCEPT !.deleted = @ + 1, !.dead = @ + 1]
        ELSE [r EXCEPT !.dead = @ + 1]
countOutcome(results, deleted, checkResult) ==
    LET r == [results EXCEPT !.checked = @ + 1]
    IN  IF deleted THEN [r EXCEPT !.deleted = @ + 1]
        ELSE IF checkResult.status = "live" THEN [r EXCEPT !.live = @ + 1]
        ELSE [r EXCEPT !.dead = @ + 1]
countError(results) == [results EXCEPT !.errors = @ + 1]

accumulateLast(overall, batch) ==
    [checked |-> batch.checked,
     live |-> batch.live,
     dead |-> batch.dead,
     deleted |-> batch.deleted,
     errors |-> batch.errors,
     batches |-> overall.batches + 1]
accumulate(overall, batch) ==
    [checked |-> overall.checked + batch.checked,
     live |-> overall.live + batch.live,
     dead |-> overall.dead + batch.dead,
     deleted |-> overall.deleted + batch.deleted,
     errors |-> overall.errors + batch.errors,
     batches |-> overall.batches + 1]

\* One task of links.map. pc: "probe" (checkLink, then the counter read,
\* awaited), "write" (the delete or update awaited), "ok", "err".
NewTask(l) ==
    [pc |-> "probe", url |-> store[l].url, checkedAt |-> now,
     checkResult |-> None, current |-> None, op |-> "none", data |-> None]

\* A task that has counted its link keeps nothing else.
DoneTask(pc) ==
    [pc |-> pc, url |-> <<>>, checkedAt |-> 0,
     checkResult |-> None, current |-> None, op |-> "none", data |-> None]

\* One checkAll call. probed, start, due and hist are history: the links this
\* call has handed to checkLink so far, every link's counter and the number of
\* due links when it was called, and what each checkBatch call returned.
IdleSweep == [pc |-> "idle", batchSize |-> 0, tasks |-> <<>>,
              results |-> ZeroResults, overall |-> ZeroOverall,
              probed |-> {}, start |-> <<>>, due |-> 0, hist |-> <<>>]

\* The catch of the links.map callback: this link is counted as an error, the
\* callback resolves, the other callbacks go on.
catchErrorAbort(sweep, l) ==
    [sweep EXCEPT !.tasks = [k \in DOMAIN @ |->
                                IF k = l \/ @[k].pc \in {"probe", "write"}
                                THEN DoneTask("err") ELSE @[k]],
                  !.results = countError(@)]
catchErrorRethrow(sweep, l) == IdleSweep
catchErrorSwallow(sweep, l) ==
    [sweep EXCEPT !.tasks[l] = DoneTask("ok"), !.results.checked = @ + 1]
catchError(sweep, l) ==
    [sweep EXCEPT !.tasks[l] = DoneTask("err"), !.results = countError(@)]

\* hasMoreLinks = batchResults.checked === this.options.batchSize
hasMoreLinksAtMost(results, batchSize) == results.checked <= batchSize
hasMoreLinksAttempted(results, batchSize) ==
    results.checked + results.errors = batchSize
hasMoreLinks(results, batchSize) == results.checked = batchSize

\* checkAll is called, by the scheduler's task or by POST {action: 'all'}, on a
\* LinkChecker constructed with options.batchSize.
callCheckAll(s, batchSize) ==
    /\ sweeps[s].pc = "idle"
    /\ sweeps' = [sweeps EXCEPT ![s] =
                    [IdleSweep EXCEPT
                        !.pc = "fetch", !.batchSize = batchSize,
                        !.start = [l \in DOMAIN store |->
                                        store[l].consecutive_failures],
                        !.due = Cardinality(NeedingCheck(store, now))]]
    /\ UNCHANGED <<store, now>>
StartSweep(s, batchSize) ==
    /\ callCheckAll(s, batchSize)
    /\ last' = <<"call", 0>>

\* The end of one checkBatch inside checkAll: accumulate, then loop or return.
AfterBatch(s, results, fetched) ==
    LET overall == accumulate(sweeps[s].overall, results)
        more == hasMoreLinks(results, sweeps[s].batchSize)
    IN  /\ sweeps' = [sweeps EXCEPT ![s] =
                        IF more
                        THEN [sweeps[s] EXCEPT !.pc = "delay", !.overall = overall,
                                               !.tasks = <<>>,
                                               !.results = ZeroResults,
                                               !.hist = Append(@, results)]
                        ELSE IdleSweep]
        /\ last' = <<"batch", s,
                     [results |-> results, fetched |-> fetched,
                      returned |-> IF more THEN None ELSE Some(overall),
                      batchSize |-> sweeps[s].batchSize,
                      due |-> sweeps[s].due,
                      hist |-> Append(sweeps[s].hist, results)]>>

\* checkBatch: the query of getLinksNeedingCheck is answered. An error makes
\* checkBatch, and checkAll, throw; no row makes it return zeros; otherwise every
\* row's checkLink is started.
FetchDue(s, ok) ==
    /\ sweeps[s].pc = "fetch"
    /\ IF ~ok
       THEN /\ sweeps' = [sweeps EXCEPT ![s] = IdleSweep]
            /\ last' = <<"threw", s>>
       ELSE \E links \in getLinksNeedingCheck(store, now, sweeps[s].batchSize) :
                IF links = {}
                THEN AfterBatch(s, ZeroResults, 0)
                ELSE /\ sweeps' = [sweeps EXCEPT ![s].pc = "batch",
                                       ![s].results = ZeroResults,
                                       ![s].tasks = [l \in links |-> NewTask(l)],
                                       ![s].probed = @ \cup links]
                     /\ last' = <<"call", 0>>
    /\ UNCHANGED <<store, now>>

\* checkLink resolves, updateLinkStatus sends the counter read, and the read is
\* answered: with an error (also when no row has the id, .single()), or with the
\* row, and the delete or update is sent. (The probe settling touches nothing
\* another task can see, so it is taken together with the read.)
ProbeThenRead(s, l, settled, ok) ==
    /\ sweeps[s].pc = "batch"
    /\ l \in DOMAIN sweeps[s].tasks
    /\ sweeps[s].tasks[l].pc = "probe"
    /\ LET t == sweeps[s].tasks[l]
           checkResult == checkLinkResult(t.url, t.checkedAt, settled).value
       IN  IF ~ok \/ l \notin DOMAIN store
           THEN sweeps' = [sweeps EXCEPT ![s] = catchError(@, l)]
           ELSE LET currentFailures == store[l].consecutive_failures
                    u == updateLinkStatus(currentFailures, checkResult)
                IN  sweeps' = [sweeps EXCEPT
                                ![s].tasks[l].pc = "write",
                                ![s].tasks[l].checkResult = Some(checkResult),
                                ![s].tasks[l].current = Some(currentFailures),
                                ![s].tasks[l].op = u.op,
                                ![s].tasks[l].data = u.data]
    /\ last' = IF ~ok \/ l \notin DOMAIN store
               THEN <<"failed", l, "read">> ELSE <<"call", 0>>
    /\ UNCHANGED <<store, now>>

\* The delete or the update is answered: with an error, which updateLinkStatus
\* throws on, or done, and the callback counts the link.
WriteDone(s, l, ok) ==
    /\ sweeps[s].pc = "batch"
    /\ l \in DOMAIN sweeps[s].tasks
    /\ sweeps[s].tasks[l].pc = "write"
    /\ LET t == sweeps[s].tasks[l]
       IN  IF ~ok
           THEN /\ sweeps' = [sweeps EXCEPT ![s] = catchError(@, l)]
                /\ UNCHANGED store
           ELSE /\ store' = IF t.op = "delete"
                            THEN StoreDelete(store, l)
                            ELSE StoreUpdate(store, l, t.data[1])
                /\ sweeps' = [sweeps EXCEPT
                                ![s].tasks[l] = DoneTask("ok"),
                                ![s].results =
                                    countOutcome(@, t.op = "delete", t.checkResult[1])]
    /\ last' = IF ok
               THEN <<"write", l, sweeps[s].tasks[l].current[1], sweeps[s].tasks[l].op>>
               ELSE <<"failed", l, sweeps[s].tasks[l].op>>
    /\ UNCHANGED now

\* Promise.all resolves: checkBatch returns its counters to checkAll.
BatchReturns(s) ==
    /\ sweeps[s].pc = "batch"
    /\ \A l \in DOMAIN sweeps[s].tasks : sweeps[s].tasks[l].pc \in {"ok", "err"}
    /\ AfterBatch(s, sweeps[s].results, Cardinality(DOMAIN sweeps[s].tasks))
    /\ UNCHANGED <<store, now>>

\* The 1000 ms between two batches have passed. (MaxBatches keeps the model
\* finite when a loop does not end; a sweep of MaxLinks links never reaches it.)
DelayElapses(s) ==
    /\ sweeps[s].pc = "delay"
    /\ sweeps[s].overall.batches < MaxBatches
    /\ sweeps' = [sweeps EXCEPT ![s].pc = "fetch"]
    /\ last' = <<"call", 0>>
    /\ UNCHANGED <<store, now>>

AdvanceClock ==
    /\ now < StartTime + MaxTime
    /\ now' = now + 1
    /\ last' = <<"call", 0>>
    /\ UNCHANGED <<store, sweeps>>

\* A store of never-checked rows, no sweep running.
InitStore ==
    /\ store = [l \in LinkIds |-> FreshRow(l)]
    /\ sweeps = [s \in SweepIds |-> IdleSweep]
    /\ now = StartTime

\* A store of one row, never checked or checked at time 0.
InitStoreOne ==
    /\ \E row \in InitRows(1) : store = (1 :> row)
    /\ sweeps = [s \in SweepIds |-> IdleSweep]
    /\ now = StartTime

\* Any store a sweep can find: every row never checked or checked at time 0.
\* Ids carry no meaning (rows with equal keys are fetched in any order), so the
\* stores are taken up to a renumbering of their rows.
RowRank(row) ==
    IF row.last_checked_at = None THEN 0
    ELSE IF row.status = "live" THEN 1
    ELSE 1 + row.consecutive_failures
InitStoreAny ==
    /\ store \in [LinkIds -> UNION {InitRows(l) : l \in LinkIds}]
    /\ \A l \in LinkIds : store[l] \in InitRows(l)
    /\ \A l \in LinkIds \ {1} : RowRank(store[l - 1]) <= RowRank(store[l])
    /\ sweeps = [s \in SweepIds |-> IdleSweep]
    /\ now = StartTime

\* A store of BatchLinks rows, every one never checked or one failure away from
\* its deletion.
InitStoreBatch ==
    /\ store \in [1..BatchLinks ->
                    UNION {{FreshRow(l), DeadRow(l, MaxConsecutiveFailures - 1)} :
                                l \in 1..BatchLinks}]
    /\ \A l \in 1..BatchLinks :
            store[l] \in {FreshRow(l), DeadRow(l, MaxConsecutiveFailures - 1)}
    /\ sweeps = [s \in SweepIds |-> IdleSweep]
    /\ now = StartTime

\* One sweep after another (the scheduler's non-overlap), batches of BatchSize
\* concurrent tasks.
NextChecker ==
    \/ \E batchSize \in 1..BatchSize :
            StartSweep("scheduled", batchSize) /\ UNCHANGED <<schedVars, probe>>
    \/ \E ok \in BOOLEAN : FetchDue("scheduled", ok) /\ UNCHANGED <<schedVars, probe>>
    \/ \E l \in LinkIds, settled \in SweepOutcomes, ok \in BOOLEAN :
            ProbeThenRead("scheduled", l, settled, ok) /\ UNCHANGED <<schedVars, probe>>
    \/ \E l \in LinkIds, ok \in BOOLEAN :
            WriteDone("scheduled", l, ok) /\ UNCHANGED <<schedVars, probe>>
    \/ BatchReturns("scheduled") /\ UNCHANGED <<schedVars, probe>>
    \/ DelayElapses("scheduled") /\ UNCHANGED <<schedVars, probe>>
    \/ AdvanceClock /\ UNCHANGED <<schedVars, probe>>

\* The scheduled sweep and a manual one together on a store of one row. A batch
\* of one row is never full, so neither checkAll waits for a next batch.
NextRace ==
    \/ \E s \in SweepIds : StartSweep(s, BatchSize) /\ UNCHANGED <<schedVars, probe>>
    \/ \E s \in SweepIds, ok \in BOOLEAN : FetchDue(s, ok) /\ UNCHANGED <<schedVars, probe>>
    \/ \E s \in SweepIds, l \in LinkIds, settled \in SweepOutcomes, ok \in BOOLEAN :
            ProbeThenRead(s, l, settled, ok) /\ UNCHANGED <<schedVars, probe>>
    \/ \E s \in SweepIds, l \in LinkIds, ok \in BOOLEAN :
            WriteDone(s, l, ok) /\ UNCHANGED <<schedVars, probe>>
    \/ \E s \in SweepIds : BatchReturns(s) /\ UNCHANGED <<schedVars, probe>>
    \/ AdvanceClock /\ UNCHANGED <<schedVars, probe>>

Init ==
    /\ InitSched
    /\ InitStore
    /\ InitProbe
    /\ last = <<"init", 0>>

Next ==
    \/ \E name \in JobNames : AddJob(name, TaskOf(name)) /\ UNCHANGED <<checkerVars, probe>>
    \/ \E name \in JobNames : RemoveJob(name) /\ UNCHANGED <<checkerVars, probe>>
    \/ Start /\ UNCHANGED <<checkerVars, probe>>
    \/ Stop /\ UNCHANGED <<checkerVars, probe>>
    \/ \E t \in TimerIds : TimerTick(t) /\ UNCHANGED <<checkerVars, probe>>
    \/ \E o \in ObjIds, r \in {"ok", "fail"} : TaskSettles(o, r) /\ UNCHANGED <<checkerVars, probe>>
    \/ PostAll /\ UNCHANGED <<checkerVars, probe>>
    \/ PostAllResponds /\ UNCHANGED <<checkerVars, probe>>

Spec == Init /\ [][Next]_vars

\* checkLink alone: every URL, every option, every way the race can go.
SpecProbe == Init /\ [][NextProbe]_vars

\* Sweeps one after another on a store of MaxLinks rows.
InitChecker ==
    /\ InitSched
    /\ InitStoreAny
    /\ InitProbe
    /\ last = <<"init", 0>>
SpecChecker == InitChecker /\ [][NextChecker]_vars

\* The sweep's steps once checkAll has been called: every store call, probe
\* and delay it awaits settles.
SweepStep ==
    /\ \/ \E ok \in BOOLEAN : FetchDue("scheduled", ok)
       \/ \E l \in LinkIds, settled \in SweepOutcomes, ok \in BOOLEAN :
               ProbeThenRead("scheduled", l, settled, ok)
       \/ \E l \in LinkIds, ok \in BOOLEAN : WriteDone("scheduled", l, ok)
       \/ BatchReturns("scheduled")
       \/ DelayElapses("scheduled")
    /\ UNCHANGED <<schedVars, probe>>
\* The sweeps with the clock standing still: a sweep ends long before a link
\* it has checked is due again.
NextSweeps ==
    \/ \E batchSize \in 1..BatchSize :
            StartSweep("scheduled", batchSize) /\ UNCHANGED <<schedVars, probe>>
    \/ SweepStep
SpecCheckerFair == InitChecker /\ [][NextSweeps]_vars /\ WF_vars(SweepStep)

\* The first batch of a sweep on BatchLinks due rows, followed alone: every
\* store, every outcome and completion order of the concurrent callbacks.
NextBatch ==
    \/ (/\ last[1] = "init"
        /\ StartSweep("scheduled", BatchLinks)
        /\ UNCHANGED <<schedVars, probe>>)
    \/ \E ok \in BOOLEAN : FetchDue("scheduled", ok) /\ UNCHANGED <<schedVars, probe>>
    \/ \E l \in 1..BatchLinks, settled \in SweepOutcomes, ok \in BOOLEAN :
            ProbeThenRead("scheduled", l, settled, ok) /\ UNCHANGED <<schedVars, probe>>
    \/ \E l \in 1..BatchLinks, ok \in BOOLEAN :
            WriteDone("scheduled", l, ok) /\ UNCHANGED <<schedVars, probe>>
    \/ BatchReturns("scheduled") /\ UNCHANGED <<schedVars, probe>>
InitBatch ==
    /\ InitSched
    /\ InitStoreBatch
    /\ InitProbe
    /\ last = <<"init", 0>>
SpecBatch == InitBatch /\ [][NextBatch]_vars

\* The scheduled and a manual sweep on one row, every interleaving of their
\* probes and store statements.
InitRace ==
    /\ InitSched
    /\ InitStoreOne
    /\ InitProbe
    /\ last = <<"init", 0>>
SpecRace == InitRace /\ [][NextRace]_vars

\* The scheduler of createLinkCheckerScheduler over days: the one job
\* 'link-checker', every 24 hours, its task the sweep of checkAllLinks. start()
\* runs the task at once; the interval timer fires when the clock reaches the
\* job's next run; the task settles when checkAll returns or throws.
InitDaily ==
    /\ LET h == addJob([jobs |-> <<>>, objs |-> <<>>, timers |-> <<>>,
                        running |-> FALSE, inflight |-> <<>>, outcome |-> <<>>,
                        uncaught |-> 0],
                       "link-checker", TaskOf("link-checker"), Day)
       IN  /\ jobs = h.jobs
           /\ objs = h.objs
           /\ timers = h.timers
           /\ running = h.running
           /\ inflight = h.inflight
           /\ outcome = h.outcome
           /\ uncaught = h.uncaught
    /\ manual = 0
    /\ InitStoreOne
    /\ InitProbe
    /\ last = <<"init", 0>>

DailyStart ==
    /\ ~running
    /\ Start
    /\ callCheckAll("scheduled", BatchSize)
    /\ UNCHANGED probe

DailyTick(t) ==
    /\ t \in DOMAIN timers
    /\ objs[timers[t]].nextRun = Some(now)
    /\ TimerTick(t)
    /\ IF objs[timers[t]].running
       THEN UNCHANGED checkerVars
       ELSE callCheckAll("scheduled", BatchSize)
    /\ UNCHANGED probe

\* checkAll has returned or thrown in this step: runJob's await is over.
DailySettle ==
    IF sweeps'["scheduled"].pc = "idle"
    THEN /\ Install(Collect(settleJob(Sched, jobs[1],
                        IF last'[1] = "threw" THEN "fail" ELSE "ok")))
         /\ UNCHANGED manual
    ELSE UNCHANGED schedVars

\* Time passes, but not past a timer that is due on an idle job.
DailyClock ==
    /\ now < StartTime + Day + MaxTime
    /\ \A t \in DOMAIN timers :
            objs[timers[t]].nextRun = Some(now) => objs[timers[t]].running
    /\ now' = now + 1
    /\ last' = <<"call", 0>>
    /\ UNCHANGED <<store, sweeps, schedVars, probe>>

NextDaily ==
    \/ DailyStart
    \/ \E t \in TimerIds : DailyTick(t)
    \/ \E ok \in BOOLEAN : FetchDue("scheduled", ok) /\ DailySettle /\ UNCHANGED probe
    \/ \E l \in LinkIds, settled \in SweepOutcomes, ok \in BOOLEAN :
            ProbeThenRead("scheduled", l, settled, ok) /\ UNCHANGED <<schedVars, probe>>
    \/ \E l \in LinkIds, ok \in BOOLEAN :
            WriteDone("scheduled", l, ok) /\ UNCHANGED <<schedVars, probe>>
    \/ BatchReturns("scheduled") /\ DailySettle /\ UNCHANGED probe
    \/ DailyClock
SpecDaily == InitDaily /\ [][NextDaily]_vars

\* ------------------------------------------------------------ scheduler claims

\* C1: at most one task invocation started under a given job name is in flight
\* at any instant, after any sequence of addJob, removeJob, start, stop, timer
\* ticks and task completions.
C1_OneInFlightPerName == \A name \in JobNames : InFlightByName(name) <= 1

\* C2: at no instant are two checkAll sweeps in flight, counting the sweeps of
\* the scheduler's 'link-checker' job and the ones POST {action: 'all'} started.
C2_NoConcurrentSweeps == SweepsInFlight <= 1

\* C3: when a job's task throws or rejects, runJob raises nothing, the job's
\* running flag is cleared and its timer stays armed (first conjunct, on the step
\* that settles the failed task); and the next timer tick starts a new invocation
\* (second conjunct: the timer callback of a job whose last run failed, applied
\* to any reachable state, starts the task).
C3_FailureStep ==
    \A o \in DOMAIN objs :
        (/\ inflight[o] > 0
         /\ IF o \in DOMAIN objs' THEN inflight'[o] < inflight[o] ELSE TRUE
         /\ IF o \in DOMAIN outcome' THEN outcome'[o] = "fail" ELSE FALSE)
        => /\ ~objs'[o].running
           /\ timers' = timers
           /\ objs'[o].intervalId = objs[o].intervalId
           /\ uncaught' = uncaught
C3_NextTickRuns ==
    \A t \in DOMAIN timers :
        LET o == timers[t]
        IN  (outcome[o] = "fail" /\ inflight[o] = 0)
            => /\ ~objs[o].running
               /\ runJob(Sched, o).inflight[o] = 1
               /\ runJob(Sched, o).objs[o].running
C3_TaskFailureContained == [][C3_FailureStep]_vars /\ []C3_NextTickRuns
\* A job whose task failed has been started again by its timer.
C3_Witness ==
    \E o \in DOMAIN objs :
        /\ outcome[o] = "fail"
        /\ last[1] = "tick" /\ last[2] = o /\ last[3] = "run"
        /\ inflight[o] = 1
        /\ objs[o].intervalId # None

\* ------------------------------------------------------------ checkLink claims

\* C4: checkLink never throws or rejects: for every URL, every option and every
\* way the race between the request and the timer goes (success response,
\* non-success response, thrown network or proxy error, timeout) it resolves to a
\* result with exactly the fields url, status in {live, dead}, statusCode,
\* errorMessage and checkedAt.
C4_CheckLinkNeverThrows ==
    probe.pc = "settled" =>
        /\ probe.result[1].kind = "resolved"
        /\ LET r == probe.result[1].value
           IN  /\ DOMAIN r = {"url", "status", "statusCode", "errorMessage", "checkedAt"}
               /\ r.url = probe.url
               /\ r.status \in {"live", "dead"}
               /\ r.statusCode = None \/ r.statusCode[1] \in Int
               /\ r.checkedAt = probe.checkedAt[1]
\* A probe whose request threw, and one that timed out, have settled.
C4_Witness ==
    /\ probe.pc = "settled"
    /\ probe.won[1].kind = "throw"
    /\ probe.won[1] \in ProxyErrors \cup {TimeoutError}
    /\ probe.result[1].kind = "resolved"

\* C5: the result is live with errorMessage null exactly when the response is
\* success-class; dead with the response's code and 'HTTP <code>: <reason>' for
\* any other response; dead with statusCode null and the error's text when the
\* request threw or the timer won.
C5_Classification ==
    probe.pc = "settled" =>
        LET w == probe.won[1]
            r == probe.result[1].value
        IN  /\ r.status = "live" <=> (w.kind = "response" /\ w.status \in 200..299)
            /\ r.status = "live" => r.errorMessage = None /\ r.statusCode = Some(w.status)
            /\ (w.kind = "response" /\ w.status \notin 200..299) =>
                    /\ r.status = "dead" /\ r.statusCode = Some(w.status)
                    /\ r.errorMessage =
                            Some("HTTP " \o ToString(w.status) \o ": " \o w.statusText)
            /\ (w.kind = "response" /\ w.status = 404) =>
                    r.errorMessage = Some("HTTP 404: Not Found")
            /\ w.kind = "throw" =>
                    /\ r.status = "dead" /\ r.statusCode = None
                    /\ r.errorMessage = Some(w.message)
\* A 404 response has been classified.
C5_Witness ==
    /\ probe.pc = "settled"
    /\ probe.won[1].kind = "response"
    /\ probe.won[1].status = 404
    /\ probe.result[1].value.status = "dead"

\* C6: for every URL whose host is on the .onion suffix and every option
\* (any value of torProxy), the request leaves through the SOCKS agent, never
\* directly.
C6_OnionAlwaysProxied ==
    (probe.pc # "idle" /\ OnionHost(probe.url)) => probe.egress[1][1] = "socks"

\* ---------------------------------------------------------- LinkChecker claims

\* The task of link l in sweep s has its delete or update answered without error.
WriteSucceeds(s, l) ==
    /\ sweeps[s].pc = "batch"
    /\ l \in DOMAIN sweeps[s].tasks
    /\ sweeps[s].tasks[l].pc = "write"
    /\ sweeps'[s].pc = "batch"
    /\ sweeps'[s].tasks[l].pc = "ok"

\* C7: when a dead result brings the failure count (stored count + 1) to
\* maxConsecutiveFailures or more, updateLinkStatus issues the delete and no
\* status write; once the delete is done the record is gone, deleted: true is
\* returned, and the batch counts the link under deleted and not under dead.
C7_DeleteIssued ==
    \A s \in SweepIds : \A l \in DOMAIN sweeps[s].tasks :
        LET t == sweeps[s].tasks[l]
        IN  (/\ t.pc = "write"
             /\ t.checkResult[1].status = "dead"
             /\ t.current[1] + 1 >= MaxConsecutiveFailures)
            => t.op = "delete" /\ t.data = None
C7_DeleteStep ==
    \A s \in SweepIds : \A l \in LinkIds :
        (/\ WriteSucceeds(s, l)
         /\ sweeps[s].tasks[l].checkResult[1].status = "dead"
         /\ sweeps[s].tasks[l].current[1] + 1 >= MaxConsecutiveFailures)
        => /\ l \notin DOMAIN store'
           /\ sweeps'[s].results.deleted = sweeps[s].results.deleted + 1
           /\ sweeps'[s].results.dead = sweeps[s].results.dead
           /\ sweeps'[s].results.checked = sweeps[s].results.checked + 1
C7_DeletionPreemptsWrite == []C7_DeleteIssued /\ [][C7_DeleteStep]_vars
\* A batch of one link whose stored count was 2 and whose probe was dead has
\* returned deleted 1, dead 0.
C7_Witness ==
    /\ last[1] = "batch"
    /\ last[3].fetched = 1
    /\ last[3].results.deleted = 1
    /\ last[3].results.dead = 0
    /\ last[3].results.checked = 1

\* C8: starting from a store whose records all have consecutiveFailures below
\* the threshold, no record of the store ever has consecutiveFailures at or over
\* maxConsecutiveFailures, however the scheduled and the manual sweep interleave.
C8_NoRecordAtThreshold ==
    \A l \in DOMAIN store : store[l].consecutive_failures < MaxConsecutiveFailures
\* One sweep has stored the counter just under the threshold while the other one,
\* having read it there, is about to delete the record.
C8_Witness ==
    /\ 1 \in DOMAIN store
    /\ store[1].consecutive_failures = MaxConsecutiveFailures - 1
    /\ store[1].last_checked_at[1] >= StartTime
    /\ \E s \in SweepIds :
        /\ 1 \in DOMAIN sweeps[s].tasks
        /\ sweeps[s].tasks[1].pc = "write"
        /\ sweeps[s].tasks[1].op = "delete"

\* C9: updateLinkStatus reads the stored counter c and computes c + 1 for a dead
\* result and 0 for a live one (whatever c was); below the threshold it persists
\* status, statusCode, errorMessage, lastCheckedAt = checkedAt and the new
\* counter, and sets lastVerifiedAt = checkedAt when the result is live and
\* leaves it untouched when it is dead.
C9_ReadStep ==
    \A s \in SweepIds : \A l \in LinkIds :
        (/\ sweeps[s].pc = "batch"
         /\ l \in DOMAIN sweeps[s].tasks
         /\ sweeps[s].tasks[l].pc = "probe"
         /\ sweeps'[s].pc = "batch"
         /\ sweeps'[s].tasks[l].pc = "write")
        => sweeps'[s].tasks[l].current = Some(store[l].consecutive_failures)
C9_WriteStep ==
    \A s \in SweepIds : \A l \in LinkIds :
        (WriteSucceeds(s, l) /\ l \in DOMAIN store)
        => LET t == sweeps[s].tasks[l]
               r == t.checkResult[1]
               c == t.current[1]
               n == IF r.status = "dead" THEN c + 1 ELSE 0
           IN  IF n >= MaxConsecutiveFailures
               THEN l \notin DOMAIN store'
               ELSE /\ l \in DOMAIN store'
                    /\ store'[l].status = r.status
                    /\ store'[l].status_code = r.statusCode
                    /\ store'[l].error_message = r.errorMessage
                    /\ store'[l].last_checked_at = Some(r.checkedAt)
                    /\ store'[l].consecutive_failures = n
                    /\ store'[l].last_verified_at =
                            IF r.status = "live" THEN Some(r.checkedAt)
                            ELSE store[l].last_verified_at
                    /\ store'[l].url = store[l].url
Done(s, pc) == {l \in DOMAIN sweeps[s].tasks : sweeps[s].tasks[l].pc = pc}
C10_Counts ==
    /\ \A s \in SweepIds :
        sweeps[s].pc = "batch" =>
            LET r == sweeps[s].results
            IN  /\ r.checked = r.live + r.dead + r.deleted
                /\ r.checked = Cardinality(Done(s, "ok"))
                /\ r.errors = Cardinality(Done(s, "err"))
    /\ last[1] = "batch" =>
            LET r == last[3].results
            IN  /\ r.checked = r.live + r.dead + r.deleted
                /\ r.checked + r.errors = last[3].fetched
C10_Step ==
    \A s \in SweepIds : \A l \in LinkIds :
        (/\ sweeps[s].pc = "batch"
         /\ l \in DOMAIN sweeps[s].tasks
         /\ sweeps[s].tasks[l].pc \in {"probe", "write"}
         /\ sweeps'[s].pc = "batch"
         /\ sweeps'[s].tasks[l].pc \in {"ok", "err"})
        => LET r == sweeps[s].results
               q == sweeps'[s].results
           IN  IF sweeps'[s].tasks[l].pc = "ok"
               THEN /\ q.checked = r.checked + 1
                    /\ q.live + q.dead + q.deleted = r.live + r.dead + r.deleted + 1
                    /\ q.live >= r.live /\ q.dead >= r.dead /\ q.deleted >= r.deleted
                    /\ q.errors = r.errors
               ELSE /\ q.errors = r.errors + 1
                    /\ q.checked = r.checked /\ q.live = r.live
                    /\ q.dead = r.dead /\ q.deleted = r.deleted
C10_BatchCounts == []C10_Counts /\ [][C10_Step]_vars
\* A batch of two links has returned with one link checked and one error.
C10_Witness ==
    /\ last[1] = "batch"
    /\ last[3].fetched = 2
    /\ last[3].results.checked = 1
    /\ last[3].results.errors = 1

\* The record of link l has been rewritten by a sweep of this run, or deleted.
Persisted(l) ==
    \/ l \notin DOMAIN store
    \/ /\ store[l].last_checked_at # None
       /\ store[l].last_checked_at[1] >= StartTime
       /\ store[l].status \in {"live", "dead"}

\* C11: in a batch where the probe-and-update of one link fails, the failure
\* counts that link under errors and touches neither the store nor any other
\* link's callback; every link whose callback succeeds has its update persisted
\* or its deletion performed; and at the return every fetched link has been
\* counted, so a batch of 3 with one failure returns checked 2, errors 1.
C11_FailureStep ==
    \A l \in 1..BatchLinks :
        (/\ sweeps["scheduled"].pc = "batch"
         /\ l \in DOMAIN sweeps["scheduled"].tasks
         /\ sweeps["scheduled"].tasks[l].pc \in {"probe", "write"}
         /\ sweeps'["scheduled"].pc = "batch"
         /\ sweeps'["scheduled"].tasks[l].pc = "err")
        => /\ store' = store
           /\ \A k \in DOMAIN sweeps["scheduled"].tasks \ {l} :
                    sweeps'["scheduled"].tasks[k] = sweeps["scheduled"].tasks[k]
           /\ sweeps'["scheduled"].results.errors = sweeps["scheduled"].results.errors + 1
           /\ sweeps'["scheduled"].results.checked = sweeps["scheduled"].results.checked
C11_Siblings ==
    /\ sweeps["scheduled"].pc = "batch" =>
            \A l \in DOMAIN sweeps["scheduled"].tasks :
                sweeps["scheduled"].tasks[l].pc = "ok" => Persisted(l)
    /\ last[1] = "batch" =>
            /\ last[3].results.checked + last[3].results.errors = last[3].fetched
            /\ Cardinality({l \in 1..BatchLinks : Persisted(l)}) = last[3].results.checked
C11_FailureIsolated == []C11_Siblings /\ [][C11_FailureStep]_vars
\* A batch of BatchLinks links has returned with one error, and the other links'
\* records carry their new status or are gone.
C11_Witness ==
    /\ last[1] = "batch"
    /\ last[3].fetched = BatchLinks
    /\ last[3].results.errors = 1
    /\ last[3].results.checked = BatchLinks - 1
    /\ Cardinality({l \in 1..BatchLinks : Persisted(l)}) = BatchLinks - 1
    /\ \E l \in DOMAIN store : Persisted(l)

\* C12: when the store has no due link, the batch that asks for them returns
\* checked = live = dead = deleted = errors = 0, starts no probe (no callback
\* exists, so no counter is read and no update or delete is sent) and leaves the
\* store as it was.
C12_EmptyStep ==
    \A s \in SweepIds :
        (/\ sweeps[s].pc = "fetch"
         /\ NeedingCheck(store, now) = {}
         /\ sweeps'[s].pc # "fetch"
         /\ last'[1] # "threw")
        => /\ last'[1] = "batch"
           /\ last'[3].results = ZeroResults
           /\ last'[3].fetched = 0
           /\ sweeps'[s].tasks = <<>>
           /\ sweeps'[s].pc = "idle"
           /\ store' = store
C12_EmptyBatch == [][C12_EmptyStep]_vars
\* A batch found records in the store but none of them due, and returned zeros.
C12_Witness ==
    /\ last[1] = "batch"
    /\ last[3].fetched = 0
    /\ last[3].results = ZeroResults
    /\ DOMAIN store # {}
    /\ NeedingCheck(store, now) = {}

\* C13: every checkAll that has been called comes to its end, whatever the
\* finite set of due links and the batch size (1 or more) it is configured
\* with, when every probe, store call and delay it awaits settles and no link is
\* added meanwhile; also when every probe result is dead.
C13_SweepTerminates ==
    (sweeps["scheduled"].pc # "idle") ~> (sweeps["scheduled"].pc = "idle")
\* A checkAll has returned after two batches in which no probe was live.
C13_Witness ==
    /\ last[1] = "batch"
    /\ last[3].returned # None
    /\ last[3].returned[1].batches >= 2
    /\ last[3].returned[1].checked >= 1
    /\ last[3].returned[1].live = 0

\* C14: when checkAll returns normally, no link is left due: every link that was
\* due when the sweep started has been probed by it and its record rewritten
\* with a fresh last_checked_at, or deleted.
C14_NoLinkLeftDue ==
    (last[1] = "batch" /\ last[3].returned # None) => NeedingCheck(store, now) = {}

\* ------------------------------------------------------ scheduler claims, start and stop

\* C15: once stop() has returned no timer is armed, and until start() is called
\* no step starts a task invocation; an invocation in flight still settles, and
\* settling clears its job's running flag; stop() on a scheduler that is not
\* running changes no job and no timer.
C15_NoTimerWhenStopped == ~running => timers = <<>>
C15_QuietStep ==
    (~running /\ ~running')
    => \A o \in DOMAIN inflight' :
            inflight'[o] <= (IF o \in DOMAIN inflight THEN inflight[o] ELSE 0)
C15_Completes ==
    \A o \in DOMAIN inflight :
        (o \in DOMAIN inflight' /\ inflight'[o] < inflight[o]) => ~objs'[o].running
C15_StopNoop == (~running /\ Stop) => UNCHANGED schedVars
C15_StopQuiesces ==
    []C15_NoTimerWhenStopped /\ [][C15_QuietStep /\ C15_Completes /\ C15_StopNoop]_vars
\* stop() has returned while an invocation of a registered job is in flight.
C15_Witness ==
    /\ ~running
    /\ timers = <<>>
    /\ \E i \in 1..Len(jobs) : inflight[jobs[i]] > 0 /\ objs[jobs[i]].running

\* C16: start() on a stopped scheduler calls runJob for every registered job, so
\* that each of them is running (a new invocation, unless one is still in
\* flight), and arms exactly one timer per job, the job's nextRun being one
\* interval ahead; start() on a running scheduler changes nothing.
C16_StartStep ==
    (~running /\ running')
    => /\ jobs' = jobs
       /\ Cardinality(DOMAIN timers') = Len(jobs)
       /\ \A i \in 1..Len(jobs) :
            LET o == jobs[i]
            IN  /\ objs'[o].running
                /\ inflight'[o] = inflight[o] + (IF objs[o].running THEN 0 ELSE 1)
                /\ objs'[o].intervalId # None
                /\ objs'[o].intervalId[1] \in DOMAIN timers'
                /\ timers'[objs'[o].intervalId[1]] = o
                /\ objs'[o].nextRun = Some(now + objs[o].intervalMs)
C16_StartNoop == (running /\ Start) => UNCHANGED schedVars
C17_StoreStep == store' = store /\ sweeps' = sweeps
C17_SingleProbeNoStore == [][C17_StoreStep]_vars
\* The URL of a stored link has been probed and found dead; its record is the
\* one it was.
C17_Witness ==
    /\ probe.pc = "settled"
    /\ probe.url = LinkUrl(1)
    /\ probe.result[1].value.status = "dead"
    /\ 1 \in DOMAIN store
    /\ store[1] = FreshRow(1)

\* ------------------------------------------------------ LinkChecker claims, sweeps

\* C18: a record that is gone from the store does not come back: no step of a
\* sweep, later or concurrent, adds a record, and an update sent for a link
\* before its deletion, answered after it, writes nothing.
C18_NoRecordAdded == \A l \in LinkIds : l \notin DOMAIN store => l \notin DOMAIN store'
C18_DeletedStaysDeleted == [][C18_NoRecordAdded]_vars
\* The update a sweep had in flight was answered after the other sweep deleted
\* the link at the threshold; the store has no record of it.
C18_Witness ==
    /\ last[1] = "write"
    /\ last[4] = "update"
    /\ last[2] \notin DOMAIN store

\* C19: a record's last_verified_at changes only when a live result is
\* persisted for it, and never to an earlier timestamp, however a scheduled and
\* a manual sweep that probe the same link interleave.
C19_VerifiedStep ==
    \A l \in (DOMAIN store) \cap (DOMAIN store') :
        store'[l].last_verified_at # store[l].last_verified_at
        => /\ store'[l].status = "live"
           /\ store'[l].last_verified_at # None
           /\ \/ store[l].last_verified_at = None
              \/ store'[l].last_verified_at[1] >= store[l].last_verified_at[1]
C19_LastVerifiedMonotone == [][C19_VerifiedStep]_vars

\* C20, as stated: every store error raised while checkBatch runs is caught
\* inside the batch, so checkBatch never throws.
C20_BatchNeverThrows == last[1] # "threw"
\* C20, amended: every store error raised for a link of the batch (the counter
\* read, the update or the delete of updateLinkStatus) is caught in that link's
\* callback and counted in errors, and the batch goes on to its return; the only
\* throw of checkBatch is the rethrown error of the due-links query, before any
\* link is probed, and it leaves the store as it is.
C20_LinkErrorStep ==
    \A s \in SweepIds : \A l \in LinkIds :
        (/\ sweeps[s].pc = "batch"
         /\ l \in DOMAIN sweeps[s].tasks
         /\ sweeps[s].tasks[l].pc \in {"probe", "write"}
         /\ l \notin DOMAIN sweeps'[s].tasks \/ sweeps'[s].tasks[l].pc \notin {"probe", "write", "ok"})
        => /\ sweeps'[s].pc = "batch"
           /\ sweeps'[s].tasks[l].pc = "err"
           /\ sweeps'[s].results.errors = sweeps[s].results.errors + 1
           /\ last'[1] # "threw"
C20_ThrowStep ==
    \A s \in SweepIds :
        (last'[1] = "threw" /\ last'[2] = s /\ sweeps'[s] # sweeps[s])
        => /\ sweeps[s].pc = "fetch"
           /\ store' = store
C20_Returns ==
    \A s \in SweepIds :
        (sweeps[s].pc = "batch" /\ sweeps'[s].pc # "batch")
        => /\ last'[1] = "batch"
           /\ last'[2] = s
           /\ last'[3].results.checked + last'[3].results.errors = last'[3].fetched
C20_LinkErrorsContained == [][C20_LinkErrorStep /\ C20_ThrowStep /\ C20_Returns]_vars
\* A batch in which the store failed for every link has returned its counts.
C20_Witness ==
    /\ last[1] = "batch"
    /\ last[3].fetched = 2
    /\ last[3].results.errors = 2
    /\ last[3].results.checked = 0

\* ------------------------------------------------------ LinkChecker claims, errors and sweeps

\* C21: when the counter read, the delete or the update of updateLinkStatus is
\* answered with an error, the call throws to the callback (the link ends under
\* errors), the store is left as it was, and the call sends nothing more: no
\* delete or update after a failed read, no update after a failed delete.
C21_FailedStep ==
    \A s \in SweepIds : \A l \in LinkIds :
        (/\ last'[1] = "failed" /\ last'[2] = l
         /\ sweeps[s].pc = "batch"
         /\ l \in DOMAIN sweeps[s].tasks
         /\ sweeps[s].tasks[l].pc \in {"probe", "write"}
         /\ sweeps'[s] # sweeps[s])
        => /\ store' = store
           /\ sweeps'[s].tasks[l].pc = "err"
           /\ sweeps'[s].tasks[l].op = "none"
           /\ sweeps'[s].results.errors = sweeps[s].results.errors + 1
           /\ sweeps'[s].results.checked = sweeps[s].results.checked
C21_NothingAfterThrow ==
    \A s \in SweepIds : \A l \in LinkIds :
        (/\ sweeps[s].pc = "batch"
         /\ l \in DOMAIN sweeps[s].tasks
         /\ sweeps[s].tasks[l].pc = "err"
         /\ sweeps'[s].pc = "batch")
        => /\ sweeps'[s].tasks[l] = sweeps[s].tasks[l]
           /\ (l \in DOMAIN store /\ l \in DOMAIN store' /\ store'[l] # store[l])
                => \E k \in SweepIds \ {s} : sweeps'[k] # sweeps[k]
C21_StoreErrorsThrown == [][C21_FailedStep /\ C21_NothingAfterThrow]_vars
\* The delete of a link at the threshold was answered with an error: the record
\* is still there with the status and the counter it had.
C21_Witness ==
    /\ last[1] = "failed"
    /\ last[3] = "delete"
    /\ last[2] \in DOMAIN store
    /\ store[last[2]].consecutive_failures = MaxConsecutiveFailures - 1
    /\ store[last[2]].status = "dead"
    /\ store[last[2]].last_checked_at = Some(0)

\* ------------------------------------------------------ scheduler claims, ticks and registry

\* C22: a timer tick that finds its job running changes nothing: it is neither
\* queued nor remembered. When an invocation settles, its job is left not
\* running and no invocation starts; an invocation starts only in a timer tick
\* or in start(), however many ticks were skipped before.
C22_SkipStep == (last'[1] = "tick" /\ last'[3] = "skip") => UNCHANGED schedVars
C22_SettleStep ==
    \A o \in DOMAIN objs : \A r \in {"ok", "fail"} :
        TaskSettles(o, r)
        => /\ o \in DOMAIN objs' => (~objs'[o].running /\ inflight'[o] = inflight[o] - 1)
           /\ \A k \in (DOMAIN inflight') \ {o} : inflight'[k] = inflight[k]
C22_StartsOnlyOnTickOrStart ==
    (\E k \in DOMAIN inflight' :
        inflight'[k] > (IF k \in DOMAIN inflight THEN inflight[k] ELSE 0))
    => \/ (last'[1] = "tick" /\ last'[3] = "run")
       \/ (~running /\ running')
C22_TickDropped ==
    [][C22_SkipStep /\ C22_SettleStep /\ C22_StartsOnlyOnTickOrStart]_vars
\* A tick has just found its job running and was dropped.
C22_Witness ==
    /\ last[1] = "tick"
    /\ last[3] = "skip"
    /\ inflight[last[2]] = 1
    /\ objs[last[2]].running

\* ------------------------------------------------------ checkLink claims, the race

\* C23: a probe whose timer fires before its network call settles resolves to
\* status dead, statusCode null, errorMessage 'Request timeout'; when the
\* network call settles afterwards, the result of the probe stays as it was
\* and no record of the store changes.
C23_TimedOut ==
    /\ probe.pc = "settled"
    /\ probe.won # None
    /\ probe.won[1].kind = "throw"
    /\ probe.won[1].message = "Request timeout"
C23_TimeoutResult ==
    C23_TimedOut
    => /\ probe.result[1].kind = "resolved"
       /\ probe.result[1].value.status = "dead"
       /\ probe.result[1].value.statusCode = None
       /\ probe.result[1].value.errorMessage = Some("Request timeout")
C23_LateStep ==
    (C23_TimedOut /\ probe.fetchPending /\ ~probe'.fetchPending)
    => /\ probe'.result = probe.result
       /\ probe'.won = probe.won
       /\ store' = store
C23_TimeoutWins == []C23_TimeoutResult /\ [][C23_LateStep]_vars
\* The timer won and the abandoned network call has settled since.
C23_Witness ==
    /\ C23_TimedOut
    /\ ~probe.fetchPending
    /\ probe.result[1].value.errorMessage = Some("Request timeout")

\* C24: within one checkAll call no link is handed to checkLink twice: a batch
\* never holds a link an earlier batch of the same call held, whether that
\* link was persisted or counted as an error; and while the call runs, no
\* link's stored consecutive_failures exceeds its value at the call by more
\* than 1.
C24_ProbeOnceStep ==
    \A s \in SweepIds :
        (sweeps[s].pc = "fetch" /\ sweeps'[s].pc = "batch")
        => (DOMAIN sweeps'[s].tasks) \cap sweeps[s].probed = {}
C24_AtMostOneFailure ==
    \A s \in SweepIds :
        sweeps[s].pc # "idle"
        => \A l \in DOMAIN store :
                store[l].consecutive_failures <= sweeps[s].start[l] + 1
C24_ProbedOncePerSweep == []C24_AtMostOneFailure /\ [][C24_ProbeOnceStep]_vars
\* A second batch is running while a link of the first batch, persisted as
\* dead with its counter raised, is still in the store.
C24_Witness ==
    /\ sweeps["scheduled"].pc = "batch"
    /\ sweeps["scheduled"].overall.batches >= 1
    /\ \E l \in sweeps["scheduled"].probed \ DOMAIN sweeps["scheduled"].tasks :
            /\ l \in DOMAIN store
            /\ store[l].last_checked_at # None
            /\ store[l].last_checked_at[1] >= StartTime
            /\ store[l].consecutive_failures = sweeps["scheduled"].start[l] + 1
\* A sweep has returned after a second batch in which a link was counted as an
\* error, and that link is still due.
C24_WitnessError ==
    /\ last[1] = "batch"
    /\ last[3].returned # None
    /\ last[3].returned[1].batches = 2
    /\ last[3].returned[1].errors >= 1
    /\ NeedingCheck(store, now) # {}

\* C25: addJob starts no invocation and arms no timer, whether the scheduler is
\* running or not: the job it registers has no timer (active = false), is not
\* running and has nothing in flight, and after the call no armed timer belongs
\* to a job of that name, the replaced one included. A replaced definition's
\* task is not started afterwards: every invocation that starts is of a job
\* that is in the registry at that moment.
Registered == {jobs[i] : i \in 1..Len(jobs)}
C25_AddStep ==
    \A name \in JobNames :
        AddJob(name, TaskOf(name))
        => LET o == jobs'[Len(jobs')]
           IN  /\ objs'[o].name = name
               /\ objs'[o].intervalId = None
               /\ ~objs'[o].running
               /\ inflight'[o] = 0
               /\ running' = running
               /\ \A k \in DOMAIN inflight' :
                      inflight'[k] <= (IF k \in DOMAIN inflight THEN inflight[k] ELSE 0)
               /\ \A t \in DOMAIN timers' : objs'[timers'[t]].name # name
C25_StartStep ==
    \A k \in DOMAIN inflight' :
        inflight'[k] > (IF k \in DOMAIN inflight THEN inflight[k] ELSE 0)
        => k \in Registered
C25_AddJobStartsNothing == [][C25_AddStep /\ C25_StartStep]_vars
\* The scheduler is running, a job was replaced while its task was in flight
\* under an armed timer: the new job has no timer, the old timer is gone.
C25_Witness ==
    /\ running
    /\ \E o \in Registered, k \in (DOMAIN objs) \ Registered :
            /\ objs[k].name = objs[o].name
            /\ objs[o].intervalId = None
            /\ objs[o].lastRun = None
            /\ objs[k].intervalId # None
            /\ inflight[k] = 1
            /\ \A t \in DOMAIN timers : timers[t] \notin {o, k}

\* C26: a checkAll call that finds N links due, runs with batchSize B and
\* returns with no error counted has made exactly N \div B + 1 checkBatch calls,
\* every one but the last returning checked = B and the last one less (0 when
\* B divides N); it returns checked = N, batches equal to the number of
\* checkBatch calls, and every total equal to the sum of what the checkBatch
\* calls returned. A checkBatch is called only when the one before has returned.
RECURSIVE SumChecked(_)
SumChecked(h) == IF h = <<>> THEN 0 ELSE Head(h).checked + SumChecked(Tail(h))
RECURSIVE SumLive(_)
SumLive(h) == IF h = <<>> THEN 0 ELSE Head(h).live + SumLive(Tail(h))
RECURSIVE SumDead(_)
SumDead(h) == IF h = <<>> THEN 0 ELSE Head(h).dead + SumDead(Tail(h))
RECURSIVE SumDeleted(_)
SumDeleted(h) == IF h = <<>> THEN 0 ELSE Head(h).deleted + SumDeleted(Tail(h))
C26_ReturnedClean ==
    /\ last[1] = "batch"
    /\ last[3].returned # None
    /\ last[3].returned[1].errors = 0
C26_Totals ==
    C26_ReturnedClean
    => LET r == last[3].returned[1]
           h == last[3].hist
           N == last[3].due
           B == last[3].batchSize
       IN  /\ r.batches = (N \div B) + 1
           /\ r.batches = Len(h)
           /\ \A i \in 1..(Len(h) - 1) : h[i].checked = B
           /\ h[Len(h)].checked = N % B
           /\ r.checked = N
           /\ r.checked = SumChecked(h)
           /\ r.live = SumLive(h)
           /\ r.dead = SumDead(h)
           /\ r.deleted = SumDeleted(h)
           /\ r.live + r.dead + r.deleted = N
C26_OneBatchAtATime ==
    \A s \in SweepIds :
        sweeps[s].pc \in {"fetch", "delay"}
        => sweeps[s].tasks = <<>> /\ sweeps[s].overall.batches = Len(sweeps[s].hist)
C26_BatchCount == C26_Totals /\ C26_OneBatchAtATime
\* A call with batchSize 1 has returned after three batches, two of one link
\* and an empty one.
C26_Witness ==
    /\ C26_ReturnedClean
    /\ last[3].due = 2
    /\ last[3].batchSize = 1
    /\ last[3].returned[1].batches = 3
    /\ last[3].returned[1].checked = 2
    /\ last[3].results = ZeroResults
\* A call over one due link with batchSize 2 has returned after one batch.
C26_WitnessShort ==
    /\ C26_ReturnedClean
    /\ last[3].due = 1
    /\ last[3].batchSize = 2
    /\ last[3].returned[1].batches = 1
    /\ last[3].returned[1].checked = 1

\* C27: a URL whose host is not on the .onion suffix is probed by direct
\* transport, with no proxy agent, whatever its path contains.
C27_HostDecidesTransport ==
    (probe.pc # "idle" /\ ~OnionHost(probe.url))
    => /\ probe.egress = Some(<<"direct">>)
       /\ createFetchOptions(probe.url, probe.options[1]).agent = None

\* C28: at every moment every armed timer is the one timer of a job that is in
\* the registry: its job object is registered and holds that timer's id, and
\* no two timers belong to one job. A removeJob(name) step leaves no armed
\* timer for a job of that name, and changes nothing in the scheduler when no
\* job has that name.
C28_TimersOfRegisteredJobs ==
    /\ \A t \in DOMAIN timers :
            /\ timers[t] \in Registered
            /\ objs[timers[t]].intervalId = Some(t)
    /\ \A t1, t2 \in DOMAIN timers : timers[t1] = timers[t2] => t1 = t2
C28_RemoveStep ==
    \A name \in JobNames :
        RemoveJob(name)
        => /\ \A t \in DOMAIN timers' : objs'[timers'[t]].name # name
           /\ \A o \in Registered : objs[o].name # name => o \in DOMAIN objs' /\ objs'[o] = objs[o]
           /\ ~HasJob(Sched, name) => UNCHANGED schedVars
C28_TimersBelongToRegistry == []C28_TimersOfRegisteredJobs /\ [][C28_RemoveStep]_vars
\* The scheduler is running and a job was removed while its timer was armed
\* and its task in flight: its timer is gone, another job's timer is armed.
C28_Witness ==
    /\ running
    /\ timers # <<>>
    /\ \E k \in (DOMAIN objs) \ Registered :
            /\ objs[k].intervalId # None
            /\ inflight[k] = 1
            /\ \A o \in Registered : objs[o].name # objs[k].name
            /\ \A t \in DOMAIN timers : timers[t] # k

\* C29: every update that persists a dead result leaves the link's stored
\* consecutive_failures exactly 1 above the value stored just before that
\* write, also when the scheduled and a manual sweep handle the link together.
C29_DeadWriteStep ==
    \A s \in SweepIds : \A l \in DOMAIN store :
        (/\ sweeps[s].pc = "batch"
         /\ l \in DOMAIN sweeps[s].tasks
         /\ sweeps[s].tasks[l].pc = "write"
         /\ sweeps[s].tasks[l].op = "update"
         /\ sweeps[s].tasks[l].checkResult[1].status = "dead"
         /\ sweeps'[s].pc = "batch"
         /\ sweeps'[s].tasks[l].pc = "ok")
        => store'[l].consecutive_failures = store[l].consecutive_failures + 1
C29_NoFailureLost == [][C29_DeadWriteStep]_vars

\* ------------------------------------------------------ the daily sweep

\* C30: a link that the scheduled sweep started at time T has persisted is
\* fetched as due, and probed, by the first batch of the next scheduled sweep,
\* started by the timer one interval later.
C30_NextSweepStep ==
    \A o \in Registered :
        (/\ objs[o].running
         /\ objs[o].lastRun # None
         /\ sweeps["scheduled"].pc = "fetch"
         /\ sweeps["scheduled"].overall.batches = 0
         /\ sweeps'["scheduled"] # sweeps["scheduled"]
         /\ last'[1] # "threw")
        => \A l \in DOMAIN store :
                (/\ store[l].last_checked_at # None
                 /\ store[l].last_checked_at[1] >= objs[o].lastRun[1] - Day)
                => /\ sweeps'["scheduled"].pc = "batch"
                   /\ l \in DOMAIN sweeps'["scheduled"].tasks
C30_DueAgainNextDay == [][C30_NextSweepStep]_vars

====
